---- MODULE Spec2Model ----
(***************************************************************************)
(* Model of treeconfigparser (src/treeconfigparser/__init__.py).           *)
(*                                                                         *)
(* Strings are sequences of one-character strings.  A TreeConfigParser     *)
(* instance is an object on a heap: heap[n] is the OrderedDict `tree` of   *)
(* object n, a sequence of entries [key, val] in insertion order, where    *)
(* val is either a leaf string or a reference to another object.           *)
(***************************************************************************)
EXTENDS Integers, Sequences, FiniteSets, TLC

VARIABLES
    heap,        \* the objects: heap[n] is the `tree` of TreeConfigParser n
    config,      \* a TreeConfigParser the caller built
    other,       \* a second TreeConfigParser (fresh, a clone, or a reader)
    ref,         \* the handle config.subconfig(ref.keylist) returned
    cloned,      \* other came from config.clone
    last,        \* the last public call: its arguments and its outcome
    nops,        \* number of calls made so far
    pc,          \* position in the tofile / read_file scenario
    convention,  \* read_file's convention argument
    file,        \* the lines of the file read_file parses
    lineno,      \* index of the next line to parse
    keylist,     \* read_file's local `keylist` (py convention)
    section,     \* read_file's local `section` (flat convention)
    todo,        \* the part of keylistlist the final loop has not reached
    max_rec,     \* read_file's local `max_rec`
    stack,       \* activations of solve_references_keylist, innermost last
    err,         \* the exception that ended read_file
    heap0,       \* the heap when the reference pass started
    file2        \* the lines tofile wrote for the tree read_file built

vars == <<heap, config, other, ref, cloned, last, nops,
          pc, convention, file, lineno, keylist, section,
          todo, max_rec, stack, err, heap0, file2>>

treevars == <<heap, config, other, ref, cloned, last, nops>>
filevars == <<pc, convention, file, lineno, keylist, section,
              todo, max_rec, stack, err, heap0, file2>>

-----------------------------------------------------------------------------
(* Bounds *)

MaxOps == 3
MaxBuild == 3
MaxLines == 3

-----------------------------------------------------------------------------
(* Python str methods on sequences of characters *)

Min(S) == CHOOSE x \in S : \A y \in S : x <= y

IsWhite(c) == c = " "

IsPrefixAt(s, sub, i) ==
    /\ i + Len(sub) - 1 <= Len(s)
    /\ \A j \in 1..Len(sub) : s[i + j - 1] = sub[j]

\* str.find: 0-based index of the first occurrence, -1 when absent
find(s, sub) ==
    LET idx == {i \in 1..(Len(s) + 1) : IsPrefixAt(s, sub, i)}
    IN  IF idx = {} THEN -1 ELSE Min(idx) - 1

RECURSIVE lstrip(_)
lstrip(s) == IF s # <<>> /\ IsWhite(Head(s)) THEN lstrip(Tail(s)) ELSE s

RECURSIVE rstrip(_)
rstrip(s) ==
    IF s # <<>> /\ IsWhite(s[Len(s)]) THEN rstrip(SubSeq(s, 1, Len(s) - 1))
    ELSE s

strip(s) == rstrip(lstrip(s))

isspace(s) == s # <<>> /\ \A i \in 1..Len(s) : IsWhite(s[i])

\* str.split(sep) for a one-character separator: the texts before,
\* between and after the occurrences of the separator
split(s, ch) ==
    LET idx == {i \in 1..Len(s) : s[i] = ch}
        n == Cardinality(idx)
        at == [j \in 1..n |->
                  CHOOSE p \in idx : Cardinality({q \in idx : q < p}) = j - 1]
    IN  [j \in 1..(n + 1) |->
            SubSeq(s, IF j = 1 THEN 1 ELSE at[j - 1] + 1,
                      IF j = n + 1 THEN Len(s) ELSE at[j] - 1)]

\* str.split(sep, 1)
split1(s, ch) ==
    LET idx == {i \in 1..Len(s) : s[i] = ch}
    IN  IF idx = {} THEN <<s>>
        ELSE <<SubSeq(s, 1, Min(idx) - 1), SubSeq(s, Min(idx) + 1, Len(s))>>

\* str.split() with sep=None: split on runs of whitespace, no empty parts
RECURSIVE split_white(_)
split_white(s) ==
    LET t == lstrip(s)
        ws == {i \in 1..Len(t) : IsWhite(t[i])}
    IN  IF t = <<>> THEN <<>>
        ELSE IF ws = {} THEN <<t>>
        ELSE <<SubSeq(t, 1, Min(ws) - 1)>>
                 \o split_white(SubSeq(t, Min(ws), Len(t)))

RECURSIVE replace_empty(_, _)
replace_empty(s, new) ==
    IF s = <<>> THEN new
    ELSE new \o <<Head(s)>> \o replace_empty(Tail(s), new)

\* str.replace(old, new): every non-overlapping occurrence, left to right;
\* replace_from scans s from position i on
RECURSIVE replace_from(_, _, _, _)
replace_from(s, old, new, i) ==
    IF i > Len(s) THEN <<>>
    ELSE IF IsPrefixAt(s, old, i)
         THEN new \o replace_from(s, old, new, i + Len(old))
    ELSE <<s[i]>> \o replace_from(s, old, new, i + 1)

replace(s, old, new) ==
    IF old = <<>> THEN replace_empty(s, new)
    ELSE replace_from(s, old, new, 1)

ascii_uppercase ==
    << "A", "B", "C", "D", "E", "F", "G", "H", "I", "J", "K", "L",
       "M", "N", "O", "P", "Q", "R", "S", "T", "U", "V", "W", "X", "Y", "Z" >>

ascii_lowercase ==
    << "a", "b", "c", "d", "e", "f", "g", "h", "i", "j", "k", "l",
       "m", "n", "o", "p", "q", "r", "s", "t", "u", "v", "w", "x", "y", "z" >>

lower_char(c) ==
    IF \E i \in 1..Len(ascii_uppercase) : ascii_uppercase[i] = c
    THEN ascii_lowercase[CHOOSE i \in 1..Len(ascii_uppercase) :
                            ascii_uppercase[i] = c]
    ELSE c

lower(s) == [i \in 1..Len(s) |-> lower_char(s[i])]

RECURSIVE spaces(_)
spaces(n) == IF n <= 0 THEN <<>> ELSE <<" ">> \o spaces(n - 1)

RECURSIVE join(_, _)
join(parts, sep) ==
    IF parts = <<>> THEN <<>>
    ELSE IF Len(parts) = 1 THEN parts[1]
    ELSE parts[1] \o sep \o join(Tail(parts), sep)

-----------------------------------------------------------------------------
(* OrderedDict of one TreeConfigParser *)

Leaf(s) == [isnode |-> FALSE, str |-> s, ref |-> 0]
Node(n) == [isnode |-> TRUE, str |-> <<>>, ref |-> n]

has_key(tree, key) == \E i \in 1..Len(tree) : tree[i].key = key

index_of(tree, key) == CHOOSE i \in 1..Len(tree) : tree[i].key = key

dict_get(tree, key) == tree[index_of(tree, key)].val

\* assignment keeps the position of an existing key, appends a new one
dict_set(tree, key, val) ==
    IF has_key(tree, key)
    THEN [tree EXCEPT ![index_of(tree, key)] = [key |-> key, val |-> val]]
    ELSE Append(tree, [key |-> key, val |-> val])

dict_del(tree, key) ==
    LET i == index_of(tree, key)
    IN  SubSeq(tree, 1, i - 1) \o SubSeq(tree, i + 1, Len(tree))

\* TreeConfigParser(): a new object with an empty tree
new_id(hp) == Len(hp) + 1
alloc(hp) == Append(hp, <<>>)

-----------------------------------------------------------------------------
(* string_conversion *)

Returned(kind, v) == [exc |-> "none", kind |-> kind, val |-> v]
Raised(e) == [exc |-> e, kind |-> "exception", val |-> <<>>]

Digits == {"0", "1", "2", "3", "4", "5", "6", "7", "8", "9"}

digit_value(c) ==
    CHOOSE d \in 0..9 :
        <<"0", "1", "2", "3", "4", "5", "6", "7", "8", "9">>[d + 1] = c

RECURSIVE digits_to_int(_)
digits_to_int(s) ==
    IF s = <<>> THEN 0
    ELSE 10 * digits_to_int(SubSeq(s, 1, Len(s) - 1)) + digit_value(s[Len(s)])

string_to_string(value) ==
    IF value.isnode THEN Returned("node", value.ref)
    ELSE Returned("str", value.str)

string_to_bool(value) ==
    IF value.isnode THEN Raised("AttributeError")
    ELSE IF lower(value.str) \in {<<"t", "r", "u", "e">>, <<"y", "e", "s">>,
                                  <<"o", "n">>, <<"1">>}
         THEN Returned("bool", TRUE)
    ELSE IF lower(value.str) \in {<<"f", "a", "l", "s", "e">>, <<"n", "o">>,
                                  <<"o", "f", "f">>, <<"0">>}
         THEN Returned("bool", FALSE)
    ELSE Returned("ValueError", value.str)

\* int(value) without eval: optional blanks, optional sign, digits
string_to_int(value) ==
    IF value.isnode THEN Raised("TypeError")
    ELSE LET t == strip(value.str)
             neg == t # <<>> /\ Head(t) = "-"
             d == IF t # <<>> /\ Head(t) \in {"-", "+"} THEN Tail(t) ELSE t
         IN  IF d # <<>> /\ \A i \in 1..Len(d) : d[i] \in Digits
             THEN Returned("int", IF neg THEN 0 - digits_to_int(d)
                                  ELSE digits_to_int(d))
             ELSE Raised("ValueError")

string_to_stringlist(value) ==
    IF value.isnode THEN Raised("AttributeError")
    ELSE Returned("stringlist", split_white(value.str))

TypeTags == {"string", "bool", "int", "stringlist", "unknown"}

string_conversion(value, to_type) ==
    CASE to_type = "string"     -> string_to_string(value)
      [] to_type = "bool"       -> string_to_bool(value)
      [] to_type = "int"        -> string_to_int(value)
      [] to_type = "stringlist" -> string_to_stringlist(value)
      [] OTHER                  -> Raised("TypeError")

-----------------------------------------------------------------------------
(* TreeConfigParser methods; hp is the heap, n the object `self` *)

Ok(hp) == [heap |-> hp, exc |-> "none"]
Raise(hp, e) == [heap |-> hp, exc |-> e]

RECURSIVE get(_, _, _, _)
get(hp, n, kl, to_type) ==
    LET key == Head(kl)
    IN  IF ~has_key(hp[n], key) THEN Raised("KeyError")
        ELSE IF Len(kl) > 1
             THEN IF ~dict_get(hp[n], key).isnode THEN Raised("AttributeError")
                  ELSE get(hp, dict_get(hp[n], key).ref, Tail(kl), to_type)
        ELSE string_conversion(dict_get(hp[n], key), to_type)

\* set with the final assignment skipped when the key is already present
RECURSIVE set_keep_existing(_, _, _, _, _)
set_keep_existing(hp, n, kl, value, update_tree) ==
    LET key == Head(kl)
    IN  IF Len(kl) > 1
        THEN LET hp1 == IF update_tree /\ ~has_key(hp[n], key)
                        THEN [alloc(hp) EXCEPT
                                 ![n] = dict_set(@, key, Node(new_id(hp)))]
                        ELSE hp
             IN  IF ~has_key(hp1[n], key) THEN Raise(hp1, "KeyError")
                 ELSE IF ~dict_get(hp1[n], key).isnode
                      THEN Raise(hp1, "AttributeError")
                 ELSE set_keep_existing(hp1, dict_get(hp1[n], key).ref,
                                        Tail(kl), value, update_tree)
        ELSE IF has_key(hp[n], key) THEN Ok(hp)
        ELSE Ok([hp EXCEPT ![n] = dict_set(@, key, Leaf(value))])

RECURSIVE set(_, _, _, _, _)
set(hp, n, kl, value, update_tree) ==
    LET key == Head(kl)
    IN  IF Len(kl) > 1
        THEN LET hp1 == IF update_tree /\ ~has_key(hp[n], key)
                        THEN [alloc(hp) EXCEPT
                                 ![n] = dict_set(@, key, Node(new_id(hp)))]
                        ELSE hp
             IN  IF ~has_key(hp1[n], key) THEN Raise(hp1, "KeyError")
                 ELSE IF ~dict_get(hp1[n], key).isnode
                      THEN Raise(hp1, "AttributeError")
                 ELSE set(hp1, dict_get(hp1[n], key).ref, Tail(kl), value,
                          update_tree)
        ELSE Ok([hp EXCEPT ![n] = dict_set(@, key, Leaf(value))])

RECURSIVE options(_, _, _)
options(hp, n, kl) ==
    IF kl # <<>>
    THEN IF ~has_key(hp[n], Head(kl)) THEN [exc |-> "KeyError", keys |-> <<>>]
         ELSE IF ~dict_get(hp[n], Head(kl)).isnode
              THEN [exc |-> "AttributeError", keys |-> <<>>]
         ELSE options(hp, dict_get(hp[n], Head(kl)).ref, Tail(kl))
    ELSE [exc |-> "none", keys |-> [i \in 1..Len(hp[n]) |-> hp[n][i].key]]

RECURSIVE remove_option(_, _, _)
remove_option(hp, n, kl) ==
    LET key == Head(kl)
    IN  IF ~has_key(hp[n], key) THEN Raise(hp, "KeyError")
        ELSE IF Len(kl) > 1
             THEN IF ~dict_get(hp[n], key).isnode
                  THEN Raise(hp, "AttributeError")
                  ELSE remove_option(hp, dict_get(hp[n], key).ref, Tail(kl))
        ELSE Ok([hp EXCEPT ![n] = dict_del(@, key)])

RECURSIVE suboptions(_, _)
RECURSIVE suboptions_from(_, _, _)
RECURSIVE suboptions_from_with_sections(_, _, _)
\* the loop appending [key] for a subsection too
suboptions_from_with_sections(hp, n, i) ==
    IF i > Len(hp[n]) THEN <<>>
    ELSE LET e == hp[n][i]
             here == IF e.val.isnode
                     THEN LET sub == suboptions(hp, e.val.ref)
                          IN  <<(<<e.key>>)>> \o
                              [j \in 1..Len(sub) |-> <<e.key>> \o sub[j]]
                     ELSE <<(<<e.key>>)>>
         IN  here \o suboptions_from_with_sections(hp, n, i + 1)

suboptions_from(hp, n, i) ==
    IF i > Len(hp[n]) THEN <<>>
    ELSE LET e == hp[n][i]
             here == IF e.val.isnode
                     THEN LET sub == suboptions(hp, e.val.ref)
                          IN  [j \in 1..Len(sub) |-> <<e.key>> \o sub[j]]
                     ELSE <<(<<e.key>>)>>
         IN  here \o suboptions_from(hp, n, i + 1)

suboptions(hp, n) == suboptions_from(hp, n, 1)

RECURSIVE merge(_, _, _, _, _)
RECURSIVE merge_items(_, _, _, _, _)
\* the merge loop with a leaf of config assigned only where self has no key
RECURSIVE merge_items_keep_self(_, _, _, _, _)
merge_items_keep_self(hp, n, c, i, update_tree) ==
    IF i > Len(hp[c]) THEN Ok(hp)
    ELSE LET e == hp[c][i]
             key == e.key
         IN  IF /\ has_key(hp[n], key)
                /\ e.val.isnode
                /\ dict_get(hp[n], key).isnode
             THEN LET r == merge(hp, dict_get(hp[n], key).ref, e.val.ref,
                                 <<>>, update_tree)
                  IN  IF r.exc # "none" THEN r
                      ELSE merge_items_keep_self(r.heap, n, c, i + 1,
                                                 update_tree)
             ELSE IF e.val.isnode
             THEN LET hp1 == [alloc(hp) EXCEPT
                                 ![n] = dict_set(@, key, Node(new_id(hp)))]
                      r == merge(hp1, new_id(hp), e.val.ref, <<>>,
                                 update_tree)
                  IN  IF r.exc # "none" THEN r
                      ELSE merge_items_keep_self(r.heap, n, c, i + 1,
                                                 update_tree)
             ELSE merge_items_keep_self(
                      IF has_key(hp[n], key) THEN hp
                      ELSE [hp EXCEPT ![n] = dict_set(@, key, e.val)],
                      n, c, i + 1, update_tree)

\* the loop `for key in config.tree`, from the i-th key of object c on
merge_items(hp, n, c, i, update_tree) ==
    IF i > Len(hp[c]) THEN Ok(hp)
    ELSE LET e == hp[c][i]
             key == e.key
         IN  IF /\ has_key(hp[n], key)
                /\ e.val.isnode
                /\ dict_get(hp[n], key).isnode
             THEN LET r == merge(hp, dict_get(hp[n], key).ref, e.val.ref,
                                 <<>>, update_tree)
                  IN  IF r.exc # "none" THEN r
                      ELSE merge_items(r.heap, n, c, i + 1, update_tree)
             ELSE IF e.val.isnode
             THEN LET hp1 == [alloc(hp) EXCEPT
                                 ![n] = dict_set(@, key, Node(new_id(hp)))]
                      r == merge(hp1, new_id(hp), e.val.ref, <<>>,
                                 update_tree)
                  IN  IF r.exc # "none" THEN r
                      ELSE merge_items(r.heap, n, c, i + 1, update_tree)
             ELSE merge_items([hp EXCEPT ![n] = dict_set(@, key, e.val)],
                              n, c, i + 1, update_tree)

merge(hp, n, c, kl, update_tree) ==
    IF kl # <<>>
    THEN LET key == Head(kl)
             hp1 == IF update_tree /\ ~has_key(hp[n], key)
                    THEN [alloc(hp) EXCEPT
                             ![n] = dict_set(@, key, Node(new_id(hp)))]
                    ELSE hp
         IN  IF ~has_key(hp1[n], key) THEN Raise(hp1, "KeyError")
             ELSE IF ~dict_get(hp1[n], key).isnode
                  THEN Raise(hp1, "AttributeError")
             ELSE merge(hp1, dict_get(hp1[n], key).ref, c, Tail(kl),
                        update_tree)
    ELSE merge_items(hp, n, c, 1, update_tree)

RECURSIVE substitution(_, _, _, _, _)
RECURSIVE substitution_items(_, _, _, _, _)
\* the loop `for key in self.tree`, from the i-th key on
substitution_items(hp, n, old_string, new_string, i) ==
    IF i > Len(hp[n]) THEN Ok(hp)
    ELSE LET e == hp[n][i]
         IN  IF e.val.isnode
             THEN LET r == substitution(hp, e.val.ref, old_string,
                                        new_string, <<>>)
                  IN  IF r.exc # "none" THEN r
                      ELSE substitution_items(r.heap, n, old_string,
                                              new_string, i + 1)
             ELSE substitution_items(
                      [hp EXCEPT ![n] = dict_set(@, e.key,
                          Leaf(replace(e.val.str, old_string, new_string)))],
                      n, old_string, new_string, i + 1)

substitution(hp, n, old_string, new_string, kl) ==
    IF kl # <<>>
    THEN IF ~has_key(hp[n], Head(kl)) THEN Raise(hp, "KeyError")
         ELSE IF ~dict_get(hp[n], Head(kl)).isnode
              THEN Raise(hp, "AttributeError")
         ELSE substitution(hp, dict_get(hp[n], Head(kl)).ref, old_string,
                           new_string, Tail(kl))
    ELSE substitution_items(hp, n, old_string, new_string, 1)

Made(hp, n) == [heap |-> hp, exc |-> "none", ref |-> n]
NotMade(hp, e) == [heap |-> hp, exc |-> e, ref |-> 0]

\* clone copying only the top dictionary: subsections stay shared
RECURSIVE clone_shallow(_, _, _)
clone_shallow(hp, n, kl) ==
    IF kl # <<>>
    THEN IF ~has_key(hp[n], Head(kl)) THEN NotMade(hp, "KeyError")
         ELSE IF ~dict_get(hp[n], Head(kl)).isnode
              THEN NotMade(hp, "AttributeError")
         ELSE clone_shallow(hp, dict_get(hp[n], Head(kl)).ref, Tail(kl))
    ELSE Made([alloc(hp) EXCEPT ![new_id(hp)] = hp[n]], new_id(hp))

RECURSIVE clone(_, _, _)
RECURSIVE clone_items(_, _, _, _)
\* the loop `for key in self.tree` filling clone_cfg (object c)
clone_items(hp, n, c, i) ==
    IF i > Len(hp[n]) THEN hp
    ELSE LET e == hp[n][i]
         IN  IF e.val.isnode
             THEN LET r == clone(hp, e.val.ref, <<>>)
                  IN  clone_items([r.heap EXCEPT
                                      ![c] = dict_set(@, e.key, Node(r.ref))],
                                  n, c, i + 1)
             ELSE clone_items([hp EXCEPT ![c] = dict_set(@, e.key, e.val)],
                              n, c, i + 1)

clone(hp, n, kl) ==
    IF kl # <<>>
    THEN IF ~has_key(hp[n], Head(kl)) THEN NotMade(hp, "KeyError")
         ELSE IF ~dict_get(hp[n], Head(kl)).isnode
              THEN NotMade(hp, "AttributeError")
         ELSE clone(hp, dict_get(hp[n], Head(kl)).ref, Tail(kl))
    ELSE Made(clone_items(alloc(hp), n, new_id(hp), 1), new_id(hp))

\* subconfig stopping one level early: returns the parent of the section
RECURSIVE subconfig_parent(_, _, _)
subconfig_parent(hp, n, kl) ==
    IF Len(kl) > 1
    THEN IF ~has_key(hp[n], Head(kl)) THEN NotMade(hp, "KeyError")
         ELSE IF ~dict_get(hp[n], Head(kl)).isnode
              THEN NotMade(hp, "AttributeError")
         ELSE subconfig_parent(hp, dict_get(hp[n], Head(kl)).ref, Tail(kl))
    ELSE Made(hp, n)

RECURSIVE subconfig(_, _, _)
subconfig(hp, n, kl) ==
    IF kl # <<>>
    THEN IF ~has_key(hp[n], Head(kl)) THEN NotMade(hp, "KeyError")
         ELSE IF ~dict_get(hp[n], Head(kl)).isnode
              THEN NotMade(hp, "AttributeError")
         ELSE subconfig(hp, dict_get(hp[n], Head(kl)).ref, Tail(kl))
    ELSE Made(hp, n)

-----------------------------------------------------------------------------
(* Public operations on the handles a caller holds                         *)
(*   config : a TreeConfigParser()                                         *)
(*   other  : a second TreeConfigParser(), or the result of config.clone   *)
(*   ref    : the result of config.subconfig(ref.keylist), when ref.id > 0 *)

Values == {<<"1">>, <<"O", "n">>}
Substitutions == {[old |-> <<"1">>, new |-> <<"0">>]}

NonEmptyKeylists == {<<(<<"a">>)>>, <<(<<"s">>)>>, <<(<<"s">>), (<<"a">>)>>}
Keylists == NonEmptyKeylists \cup {<<>>}

\* set reads update_tree only when keys remain after the first one: a
\* one-key keylist is passed with update_tree=True
SetCalls ==
    {c \in [keylist : NonEmptyKeylists, update_tree : BOOLEAN] :
        Len(c.keylist) = 1 => c.update_tree}

\* merge reads update_tree only on a non-empty keylist: without a keylist
\* it is left at its default
MergeCalls ==
    {c \in [keylist : Keylists, update_tree : BOOLEAN] :
        c.keylist = <<>> => ~c.update_tree}

Handles == {"config", "other", "ref"}

Held(h) == h # "ref" \/ ref.id # 0

Obj(h) == CASE h = "config" -> config
            [] h = "other"  -> other
            [] OTHER        -> ref.id

NoCall == [op |-> "none", h |-> "config", with |-> "config",
           keylist |-> <<>>, value |-> <<>>, update_tree |-> FALSE,
           to_type |-> "string", old |-> <<>>, new |-> <<>>,
           exc |-> "none", kind |-> "none", ret |-> <<>>]

Idle == /\ pc = "api" /\ convention = "py" /\ file = <<>> /\ lineno = 0
        /\ keylist = <<>> /\ section = <<>> /\ todo = <<>> /\ max_rec = 0
        /\ stack = <<>>
        /\ err = "none" /\ heap0 = <<>> /\ file2 = <<>>

\* config = TreeConfigParser(); other = TreeConfigParser(); optionally
\* followed by config.set(['s', 'a'], '1', update_tree=True)
InitialHeaps ==
    { << <<>>, <<>> >>,
      set(<< <<>>, <<>> >>, 1, <<(<<"s">>), (<<"a">>)>>, <<"1">>, TRUE).heap }

Init ==
    /\ heap \in InitialHeaps
    /\ config = 1
    /\ other = 2
    /\ ref = [id |-> 0, keylist |-> <<>>]
    /\ cloned = FALSE
    /\ last = NoCall
    /\ nops = 0
    /\ Idle

Called == nops < MaxOps /\ nops' = nops + 1 /\ UNCHANGED filevars

Get(h, kl, to_type) ==
    /\ Called /\ Held(h)
    /\ LET r == get(heap, Obj(h), kl, to_type)
       IN  last' = [NoCall EXCEPT !.op = "get", !.h = h, !.keylist = kl,
                       !.to_type = to_type, !.exc = r.exc, !.kind = r.kind,
                       !.ret = r.val]
    /\ UNCHANGED <<heap, config, other, ref, cloned>>

Set(h, kl, value, update_tree) ==
    /\ Called /\ Held(h)
    /\ LET r == set(heap, Obj(h), kl, value, update_tree)
       IN  /\ heap' = r.heap
           /\ last' = [NoCall EXCEPT !.op = "set", !.h = h, !.keylist = kl,
                          !.value = value, !.update_tree = update_tree,
                          !.exc = r.exc]
    /\ UNCHANGED <<config, other, ref, cloned>>

RemoveOption(h, kl) ==
    /\ Called /\ Held(h)
    /\ LET r == remove_option(heap, Obj(h), kl)
       IN  /\ heap' = r.heap
           /\ last' = [NoCall EXCEPT !.op = "remove_option", !.h = h,
                          !.keylist = kl, !.exc = r.exc]
    /\ UNCHANGED <<config, other, ref, cloned>>

\* h.merge(g, kl, update_tree), h and g handles into different trees
Merge(h, g, kl, update_tree) ==
    /\ Called /\ Held(h) /\ Held(g)
    /\ <<h, g>> \in {<<"config", "other">>, <<"ref", "other">>,
                     <<"other", "config">>}
    /\ LET r == merge(heap, Obj(h), Obj(g), kl, update_tree)
       IN  /\ heap' = r.heap
           /\ last' = [NoCall EXCEPT !.op = "merge", !.h = h, !.with = g,
                          !.keylist = kl, !.update_tree = update_tree,
                          !.exc = r.exc]
    /\ UNCHANGED <<config, other, ref, cloned>>

Substitution(h, old_string, new_string, kl) ==
    /\ Called /\ Held(h)
    /\ LET r == substitution(heap, Obj(h), old_string, new_string, kl)
       IN  /\ heap' = r.heap
           /\ last' = [NoCall EXCEPT !.op = "substitution", !.h = h,
                          !.keylist = kl, !.old = old_string,
                          !.new = new_string, !.exc = r.exc]
    /\ UNCHANGED <<config, other, ref, cloned>>

\* other = config.clone(kl)
Clone(kl) ==
    /\ Called
    /\ LET r == clone(heap, config, kl)
       IN  /\ heap' = r.heap
           /\ other' = IF r.exc = "none" THEN r.ref ELSE other
           /\ cloned' = IF r.exc = "none" THEN TRUE ELSE cloned
           /\ last' = [NoCall EXCEPT !.op = "clone", !.keylist = kl,
                          !.exc = r.exc]
    /\ UNCHANGED <<config, ref>>

\* ref = config.subconfig(kl)
Subconfig(kl) ==
    /\ Called
    /\ LET r == subconfig(heap, config, kl)
       IN  /\ ref' = IF r.exc = "none" THEN [id |-> r.ref, keylist |-> kl]
                     ELSE ref
           /\ last' = [NoCall EXCEPT !.op = "subconfig", !.keylist = kl,
                          !.exc = r.exc]
    /\ UNCHANGED <<heap, config, other, cloned>>

Next ==
    \/ \E kl \in NonEmptyKeylists, t \in TypeTags : Get("config", kl, t)
    \/ \E h \in Handles, c \in SetCalls, v \in Values :
           Set(h, c.keylist, v, c.update_tree)
    \/ \E h \in Handles, kl \in NonEmptyKeylists : RemoveOption(h, kl)
    \/ \E h \in Handles, g \in Handles, c \in MergeCalls :
           Merge(h, g, c.keylist, c.update_tree)
    \/ \E h \in Handles, sub \in Substitutions, kl \in Keylists :
           Substitution(h, sub.old, sub.new, kl)
    \/ \E kl \in Keylists : Clone(kl)
    \/ \E kl \in Keylists : Subconfig(kl)

Spec == Init /\ [][Next]_vars

-----------------------------------------------------------------------------
(* The tree as a value: what a caller can observe of object n *)

RECURSIVE Abs(_, _)
Abs(hp, n) ==
    [i \in 1..Len(hp[n]) |->
        [key |-> hp[n][i].key,
         isnode |-> hp[n][i].val.isnode,
         str |-> hp[n][i].val.str,
         sub |-> IF hp[n][i].val.isnode THEN Abs(hp, hp[n][i].val.ref)
                 ELSE <<>>]]

Absent == [found |-> FALSE, isnode |-> FALSE, str |-> <<>>, sub |-> <<>>]
Section(t) == [found |-> TRUE, isnode |-> TRUE, str |-> <<>>, sub |-> t]
Option(v) == [found |-> TRUE, isnode |-> FALSE, str |-> v, sub |-> <<>>]

AbsIndex(t, key) == CHOOSE i \in 1..Len(t) : t[i].key = key
AbsHas(t, key) == \E i \in 1..Len(t) : t[i].key = key

\* what the keylist kl addresses in the tree value t
RECURSIVE AbsAt(_, _)
AbsAt(t, kl) ==
    IF kl = <<>> THEN Section(t)
    ELSE IF ~AbsHas(t, Head(kl)) THEN Absent
    ELSE LET e == t[AbsIndex(t, Head(kl))]
         IN  IF Len(kl) = 1
             THEN IF e.isnode THEN Section(e.sub) ELSE Option(e.str)
             ELSE IF e.isnode THEN AbsAt(e.sub, Tail(kl)) ELSE Absent

\* the objects of the tree rooted at n
RECURSIVE Reach(_, _)
Reach(hp, n) ==
    {n} \cup UNION {Reach(hp, hp[n][i].val.ref) :
                       i \in {j \in 1..Len(hp[n]) : hp[n][j].val.isnode}}

\* the object the keylist kl addresses from object n, 0 when it is no section
RECURSIVE ObjAt(_, _, _)
ObjAt(hp, n, kl) ==
    IF kl = <<>> THEN n
    ELSE IF ~has_key(hp[n], Head(kl)) THEN 0
    ELSE IF ~dict_get(hp[n], Head(kl)).isnode THEN 0
    ELSE ObjAt(hp, dict_get(hp[n], Head(kl)).ref, Tail(kl))

ProperPrefixes(kl) == {SubSeq(kl, 1, i) : i \in 1..(Len(kl) - 1)}

Mutators == {"set", "remove_option", "merge", "substitution"}

GetString(hp, n, kl) == get(hp, n, kl, "string")

ReturnsString(r, v) == r.exc = "none" /\ r.kind = "str" /\ r.val = v

-----------------------------------------------------------------------------
(* read_file: parsing *)

comment_char == "#"
reference_char == "%"
indentation == 4

\* the key None that read_file's `section` starts with (flat convention)
None == <<"None">>

is_tree_node(line) ==
    LET t == strip(line)
    IN  Len(t) > 2 /\ t[1] = "[" /\ t[Len(t)] = "]"

Parsed(hp, kl) == [heap |-> hp, exc |-> "none", keylist |-> kl]
ParseError(hp, e) == [heap |-> hp, exc |-> e, keylist |-> <<>>]

\* update_keylist without the truncation keylist[:depth]
update_keylist_no_truncation(kl, depth, indent) ==
    IF depth % indent # 0 THEN [exc |-> "IndentationError", keylist |-> <<>>]
    ELSE IF depth \div indent > Len(kl)
         THEN [exc |-> "IndentationError", keylist |-> <<>>]
    ELSE [exc |-> "none", keylist |-> kl]

update_keylist(kl, depth, indent) ==
    IF depth % indent # 0 THEN [exc |-> "IndentationError", keylist |-> <<>>]
    ELSE IF depth \div indent > Len(kl)
         THEN [exc |-> "IndentationError", keylist |-> <<>>]
    ELSE [exc |-> "none", keylist |-> SubSeq(kl, 1, depth \div indent)]

extract_tree_node_py(hp, kl, line, indent) ==
    LET t == strip(line)
        key == SubSeq(t, 2, Len(t) - 1)
        u == update_keylist(kl, find(line, key) - 1, indent)
    IN  IF u.exc # "none" THEN ParseError(hp, u.exc)
        ELSE Parsed(hp, u.keylist \o <<key>>)

extract_tree_node_flat(line) ==
    LET t == strip(line) IN SubSeq(t, 2, Len(t) - 1)

\* the key and the value of a leaf line
leaf_key(line) ==
    IF "=" \in {line[i] : i \in 1..Len(line)}
    THEN strip(split1(line, "=")[1]) ELSE strip(line)

leaf_value(line) ==
    IF "=" \in {line[i] : i \in 1..Len(line)}
    THEN strip(split1(line, "=")[2]) ELSE <<>>

extract_tree_leaf_py(hp, n, kl, line, indent) ==
    LET key == leaf_key(line)
        u == update_keylist(kl, find(line, key), indent)
    IN  IF u.exc # "none" THEN ParseError(hp, u.exc)
        ELSE LET r == set(hp, n, u.keylist \o <<key>>, leaf_value(line), TRUE)
             IN  IF r.exc # "none" THEN ParseError(r.heap, r.exc)
                 ELSE Parsed(r.heap, u.keylist)

extract_tree_leaf_flat(hp, n, sec, line) ==
    LET r == set(hp, n, <<sec, leaf_key(line)>>, leaf_value(line), TRUE)
    IN  IF r.exc # "none" THEN ParseError(r.heap, r.exc)
        ELSE Parsed(r.heap, sec)

read_line_py(hp, n, line0, kl, cc, indent) ==
    LET line == split(line0, cc)[1]
    IN  IF line = <<>> \/ isspace(line) THEN Parsed(hp, kl)
        ELSE IF is_tree_node(line)
             THEN extract_tree_node_py(hp, kl, line, indent)
        ELSE extract_tree_leaf_py(hp, n, kl, line, indent)

\* the keylist field of the result carries the new `section`
read_line_flat(hp, n, line0, sec, cc) ==
    LET line == split(line0, cc)[1]
    IN  IF line = <<>> \/ isspace(line) THEN Parsed(hp, sec)
        ELSE IF is_tree_node(line)
             THEN Parsed(hp, extract_tree_node_flat(line))
        ELSE extract_tree_leaf_flat(hp, n, sec, line)

-----------------------------------------------------------------------------
(* read_file: reference resolution *)

has_reference(value, rc) ==
    Len(value) > 2 /\ rc \in {value[i] : i \in 1..Len(value)}

\* the parts with an odd 0-based index that are not empty
RECURSIVE odd_parts(_, _)
odd_parts(parts, i) ==
    IF i > Len(parts) THEN <<>>
    ELSE (IF parts[i] # <<>> /\ i % 2 = 0 THEN <<parts[i]>> ELSE <<>>)
             \o odd_parts(parts, i + 1)

extract_references(value, rc) == odd_parts(split(value, rc), 1)

Frame(kl, value, mr, reflist) ==
    [keylist |-> kl, value |-> value, max_rec |-> mr, reflist |-> reflist]

\* solve_references_string returning the value unresolved, instead of
\* raising, when max_rec is exhausted
solve_references_enter_give_up(hp, n, kl, mr, rc) ==
    LET g == get(hp, n, kl, "string")
    IN  IF g.exc # "none" THEN [exc |-> g.exc, frame |-> <<>>]
        ELSE IF g.kind # "str" THEN [exc |-> "TypeError", frame |-> <<>>]
        ELSE IF ~has_reference(g.val, rc) \/ mr = 0
             THEN [exc |-> "none", frame |-> Frame(kl, g.val, mr, <<>>)]
        ELSE [exc |-> "none",
              frame |-> Frame(kl, g.val, mr, extract_references(g.val, rc))]

\* solve_references_string spending one more of the budget when it starts
\* on a value that holds references
solve_references_enter_spend(hp, n, kl, mr, rc) ==
    LET g == get(hp, n, kl, "string")
    IN  IF g.exc # "none" THEN [exc |-> g.exc, frame |-> <<>>]
        ELSE IF g.kind # "str" THEN [exc |-> "TypeError", frame |-> <<>>]
        ELSE IF ~has_reference(g.val, rc)
             THEN [exc |-> "none", frame |-> Frame(kl, g.val, mr, <<>>)]
        ELSE IF mr = 0 THEN [exc |-> "CrossReferenceError", frame |-> <<>>]
        ELSE [exc |-> "none",
              frame |-> Frame(kl, g.val, mr - 1,
                              extract_references(g.val, rc))]

\* entry of solve_references_keylist(kl, mr, rc) on object n, up to the
\* loop over reflist in solve_references_string
solve_references_enter(hp, n, kl, mr, rc) ==
    LET g == get(hp, n, kl, "string")
    IN  IF g.exc # "none" THEN [exc |-> g.exc, frame |-> <<>>]
        ELSE IF g.kind # "str" THEN [exc |-> "TypeError", frame |-> <<>>]
        ELSE IF ~has_reference(g.val, rc)
             THEN [exc |-> "none", frame |-> Frame(kl, g.val, mr, <<>>)]
        ELSE IF mr = 0 THEN [exc |-> "CrossReferenceError", frame |-> <<>>]
        ELSE [exc |-> "none",
              frame |-> Frame(kl, g.val, mr, extract_references(g.val, rc))]

\* the caller's loop body after solve_references_keylist returned subvalue
solve_references_substitute(frame, subvalue, rc) ==
    [frame EXCEPT
        !.value = replace(@, <<rc>> \o Head(frame.reflist) \o <<rc>>,
                          subvalue),
        !.reflist = Tail(@)]

-----------------------------------------------------------------------------
(* tofile *)

\* str(key) as the f-strings of tofile format it
format_key(key) == IF key = None THEN <<"N", "o", "n", "e">> ELSE key

write_tree_node_line_py(depth, indent, key) ==
    << spaces(depth * indent) \o <<"[">> \o format_key(key) \o <<"]">> >>

write_tree_leaf_line_py(depth, indent, key, value) ==
    << spaces(depth * indent) \o format_key(key) \o <<" ", "=", " ">>
           \o value >>

RECURSIVE write_tree_py(_, _, _, _)
RECURSIVE write_tree_py_from(_, _, _, _, _)
write_tree_py_from(hp, n, depth, indent, i) ==
    IF i > Len(hp[n]) THEN <<>>
    ELSE LET e == hp[n][i]
         IN  (IF e.val.isnode
              THEN write_tree_node_line_py(depth, indent, e.key)
                       \o write_tree_py(hp, e.val.ref, depth + 1, indent)
              ELSE write_tree_leaf_line_py(depth, indent, e.key, e.val.str))
             \o write_tree_py_from(hp, n, depth, indent, i + 1)

write_tree_py(hp, n, depth, indent) ==
    write_tree_py_from(hp, n, depth, indent, 1)

tofile(hp, n, conv, indent) ==
    IF conv = "py" THEN write_tree_py(hp, n, 0, indent)
    ELSE write_tree_py(hp, n, 0, 0)

-----------------------------------------------------------------------------
(* tofile and read_file scenarios                                          *)
(*   either  other.read_file(file, convention) on a file the caller wrote, *)
(*   or      config built by set / remove_option, config.tofile(file),     *)
(*           other.read_file(file);                                        *)
(*   then    other.tofile(file2)                                           *)

RECURSIVE SeqsUpTo(_, _)
SeqsUpTo(S, n) ==
    IF n = 0 THEN {<<>>}
    ELSE LET shorter == SeqsUpTo(S, n - 1)
         IN  shorter \cup {Append(q, x) : q \in shorter, x \in S}

InputLines ==
    {
      <<"a", " ", "=", " ", "%", "b", "%">>,  \* a = %b%
      <<"b", " ", "=", " ", "%", "a", "%">>,  \* b = %a%
      <<"b", " ", "=", " ", "x">>,  \* b = x
      <<"c", " ", "=", " ", "%", "a", "%", "-", "%", "b", "%">>,  \* c = %a%-%b%
      <<"c", " ", "=", " ", "%", "a", "%", "%", "b", "%", "a", "%", "b", "%">>,
                                                      \* c = %a%%b%a%b%
      <<"[", "s", "]">>,  \* [s]
      <<" ", " ", " ", " ", "a", " ", "=", " ", "y">>,  \*     a = y
      <<"b", " ", "=", " ", "%", "s", ".", "a", "%", " ", "#", "c">>   \* b = %s.a% #c
    }

InputFiles == SeqsUpTo(InputLines, MaxLines)

BuildKeylists == {<<(<<"a">>)>>, <<(<<"s">>)>>, <<(<<"s">>), (<<"a">>)>>,
                  <<(<<"s">>), (<<"s">>)>>,
                  <<(<<"s">>), (<<"s">>), (<<"a">>)>>}
BuildValues == {<<"x">>, <<>>, <<"x", "#">>}

InitFile ==
    /\ heap = << <<>>, <<>> >>
    /\ config = 1
    /\ other = 2
    /\ ref = [id |-> 0, keylist |-> <<>>]
    /\ cloned = FALSE
    /\ last = NoCall
    /\ nops = 0
    /\ pc = "build"
    /\ convention = "py"
    /\ file = <<>>
    /\ lineno = 1
    /\ keylist = <<>>
    /\ section = None
    /\ todo = <<>>
    /\ max_rec = 0
    /\ stack = <<>>
    /\ err = "none"
    /\ heap0 = <<>>
    /\ file2 = <<>>

BuildSet(kl, value) ==
    /\ pc = "build" /\ nops < MaxBuild
    /\ heap' = set(heap, config, kl, value, TRUE).heap
    /\ nops' = nops + 1
    /\ UNCHANGED <<config, other, ref, cloned, last, filevars>>

BuildRemoveOption(kl) ==
    /\ pc = "build" /\ nops < MaxBuild
    /\ heap' = remove_option(heap, config, kl).heap
    /\ nops' = nops + 1
    /\ UNCHANGED <<config, other, ref, cloned, last, filevars>>

\* config.tofile(file)
ToFile ==
    /\ pc = "build"
    /\ file' = tofile(heap, config, convention, indentation)
    /\ pc' = "read"
    /\ UNCHANGED <<treevars, convention, lineno, keylist, section, todo,
                   max_rec, stack, err, heap0, file2>>

\* the caller wrote the file by hand and chose the convention
GivenFile(lines, conv) ==
    /\ pc = "build" /\ nops = 0
    /\ file' = lines
    /\ convention' = conv
    /\ pc' = "read"
    /\ UNCHANGED <<treevars, lineno, keylist, section, todo, max_rec, stack,
                   err, heap0, file2>>

\* one iteration of the loop over the lines
ReadLine ==
    /\ pc = "read" /\ lineno <= Len(file)
    /\ LET r == IF convention = "py"
                THEN read_line_py(heap, other, file[lineno], keylist,
                                  comment_char, indentation)
                ELSE read_line_flat(heap, other, file[lineno], section,
                                    comment_char)
       IN  /\ heap' = r.heap
           /\ IF r.exc # "none"
              THEN /\ pc' = "error" /\ err' = r.exc
                   /\ UNCHANGED <<lineno, keylist, section>>
              ELSE /\ lineno' = lineno + 1
                   /\ keylist' = IF convention = "py" THEN r.keylist
                                 ELSE keylist
                   /\ section' = IF convention = "py" THEN section
                                 ELSE r.keylist
                   /\ UNCHANGED <<pc, err>>
    /\ UNCHANGED <<config, other, ref, cloned, last, nops, convention, file,
                   todo, max_rec, stack, heap0, file2>>

\* keylistlist = self.suboptions(); max_rec = len(keylistlist) - 1
StartResolve ==
    /\ pc = "read" /\ lineno > Len(file)
    /\ todo' = suboptions(heap, other)
    /\ max_rec' = Len(suboptions(heap, other)) - 1
    /\ heap0' = heap
    /\ pc' = "resolve"
    /\ UNCHANGED <<treevars, convention, file, lineno, keylist, section,
                   stack, err, file2>>

\* a call of solve_references_keylist: by the final loop for the next
\* keylist, or by solve_references_string for the next reference
ResolveCall ==
    /\ pc = "resolve"
    /\ \/ stack = <<>> /\ todo # <<>>
       \/ stack # <<>> /\ stack[Len(stack)].reflist # <<>>
    /\ LET top == stack[Len(stack)]
           kl == IF stack = <<>> THEN Head(todo)
                 ELSE split(Head(top.reflist), ".")
           mr == IF stack = <<>> THEN max_rec ELSE top.max_rec - 1
           r == solve_references_enter(heap, other, kl, mr, reference_char)
       IN  /\ IF r.exc # "none"
              THEN pc' = "error" /\ err' = r.exc /\ stack' = stack
              ELSE stack' = Append(stack, r.frame) /\ UNCHANGED <<pc, err>>
           /\ todo' = IF stack = <<>> THEN Tail(todo) ELSE todo
    /\ UNCHANGED <<treevars, convention, file, lineno, keylist, section,
                   max_rec, heap0, file2>>

\* solve_references_string returns; solve_references_keylist stores the
\* value and returns it to its caller
ResolveReturn ==
    /\ pc = "resolve"
    /\ stack # <<>> /\ stack[Len(stack)].reflist = <<>>
    /\ LET top == stack[Len(stack)]
           rest == SubSeq(stack, 1, Len(stack) - 1)
           r == set(heap, other, top.keylist, top.value, FALSE)
       IN  /\ heap' = r.heap
           /\ IF r.exc # "none"
              THEN pc' = "error" /\ err' = r.exc /\ stack' = stack
              ELSE /\ UNCHANGED <<pc, err>>
                   /\ stack' = IF rest = <<>> THEN rest
                               ELSE [rest EXCEPT ![Len(rest)] =
                                       solve_references_substitute(
                                           @, top.value, reference_char)]
    /\ UNCHANGED <<config, other, ref, cloned, last, nops, convention, file,
                   lineno, keylist, section, todo, max_rec, heap0, file2>>

\* read_file returns
ResolveDone ==
    /\ pc = "resolve" /\ stack = <<>> /\ todo = <<>>
    /\ pc' = "returned"
    /\ UNCHANGED <<treevars, convention, file, lineno, keylist, section,
                   todo, max_rec, stack, err, heap0, file2>>

\* other.tofile(file2)
ToFileAgain ==
    /\ pc = "returned"
    /\ file2' = tofile(heap, other, convention, indentation)
    /\ pc' = "written"
    /\ UNCHANGED <<treevars, convention, file, lineno, keylist, section,
                   todo, max_rec, stack, err, heap0>>

NextFile ==
    \/ \E kl \in BuildKeylists, v \in BuildValues : BuildSet(kl, v)
    \/ \E kl \in BuildKeylists : BuildRemoveOption(kl)
    \/ ToFile
    \/ \E lines \in InputFiles, conv \in {"py", "flat"} :
           GivenFile(lines, conv)
    \/ ReadLine
    \/ StartResolve
    \/ ResolveCall
    \/ ResolveReturn
    \/ ResolveDone
    \/ ToFileAgain

SpecFile == InitFile /\ [][NextFile]_vars

\* the lines of the files whose references are resolved
ResolveLines ==
    {
      <<"a", " ", "=", " ", "%", "b", "%">>,  \* a = %b%
      <<"b", " ", "=", " ", "%", "a", "%">>,  \* b = %a%
      <<"a", " ", "=", " ", "%", "a", "%">>,  \* a = %a%
      <<"b", " ", "=", " ", "x">>,  \* b = x
      <<"c", " ", "=", " ", "%", "a", "%", "%", "b", "%", "a", "%", "b", "%">>,
                                                      \* c = %a%%b%a%b%
      <<"d", " ", "=", " ", "%", "z", "%">>  \* d = %z%
    }

ResolveFiles == SeqsUpTo(ResolveLines, MaxLines)

\* read_file alone, on a file in the nested convention
NextResolve ==
    \/ \E lines \in ResolveFiles : GivenFile(lines, "py")
    \/ ReadLine
    \/ StartResolve
    \/ ResolveCall
    \/ ResolveReturn
    \/ ResolveDone

ResolveStep == ResolveCall \/ ResolveReturn \/ ResolveDone

\* read_file runs synchronously: once the reference pass has started, its
\* next step is always taken
FairSpecResolve == InitFile /\ [][NextResolve]_vars /\ WF_vars(ResolveStep)

\* the lines of the files whose indentation is parsed
IndentLines ==
    {
      <<"[", "s", "]">>,  \* [s]
      <<"[", "a", "]">>,  \* [a]
      <<" ", " ", " ", " ", "[", "t", "]">>,  \*     [t]
      <<" ", " ", "[", "t", "]">>,  \*   [t]
      <<"a", " ", "=", " ", "x">>,  \* a = x
      <<" ", " ", " ", " ", "a", " ", "=", " ", "y">>,  \*     a = y
      <<" ", " ", " ", " ", " ", " ", " ", " ", "a">>,  \*         a
      <<" ", " ", "b", " ", "=", " ", "x">>,  \*   b = x
      <<" ", " ", " ", " ", "=", " ", "x">>  \*     = x
    }

IndentFiles == SeqsUpTo(IndentLines, MaxLines)

\* read_file on a file in the nested convention, sections and leaves at
\* several indentations
NextIndent ==
    \/ \E lines \in IndentFiles : GivenFile(lines, "py")
    \/ ReadLine
    \/ StartResolve
    \/ ResolveCall
    \/ ResolveReturn
    \/ ResolveDone

SpecIndent == InitFile /\ [][NextIndent]_vars

-----------------------------------------------------------------------------
(* Claims about the tree operations *)

AddressesLeaf(hp, n, kl) ==
    LET x == AbsAt(Abs(hp, n), kl) IN x.found /\ ~x.isnode

AddressesSection(hp, n, kl) ==
    LET x == AbsAt(Abs(hp, n), kl) IN x.found /\ x.isnode

LastObj == Obj(last.h)

\* C1 as stated: set(K, v, update_tree=True) always succeeds and the
\* following get(K) returns v.
C1_SetAlwaysSucceeds ==
    (last.op = "set" /\ last.update_tree)
        => /\ last.exc = "none"
           /\ ReturnsString(GetString(heap, LastObj, last.keylist),
                            last.value)

\* C1 amended: set(K, v, update_tree=True) succeeds, and the following
\* get(K) returns exactly v, unless a proper prefix of K addresses a leaf;
\* in that case set raises AttributeError.
C1_SetThenGet ==
    (last.op = "set" /\ last.update_tree)
        => IF \E q \in ProperPrefixes(last.keylist) :
                  AddressesLeaf(heap, LastObj, q)
           THEN last.exc = "AttributeError"
           ELSE /\ last.exc = "none"
                /\ ReturnsString(GetString(heap, LastObj, last.keylist),
                                 last.value)

C1_Witness ==
    /\ last.op = "set" /\ last.update_tree /\ last.exc = "none"
    /\ Len(last.keylist) = 2
    /\ ReturnsString(GetString(heap, LastObj, last.keylist), last.value)

\* C2: get(K) where K addresses a subsection is an error for every type
\* tag, the default 'string' included.
C2_GetSectionIsError ==
    (last.op = "get" /\ AddressesSection(heap, LastObj, last.keylist))
        => last.exc # "none"

\* C3: a clone shares no object with the source, a mutation through the
\* clone leaves the source tree unchanged and a mutation through the source
\* (or an alias of it) leaves the clone unchanged.
C3_NoSharedObject == Reach(heap, config) \cap Reach(heap, other) = {}

C3_MutationIsLocal ==
    (cloned' /\ last'.op \in Mutators)
        => /\ last'.h = "other" => Abs(heap', config) = Abs(heap, config)
           /\ last'.h # "other" => Abs(heap', other) = Abs(heap, other)

C3_CloneIndependent == []C3_NoSharedObject /\ [][C3_MutationIsLocal]_vars

C3_Witness ==
    /\ cloned /\ last.op = "set" /\ last.h = "other" /\ last.exc = "none"
    /\ Len(last.keylist) = 2
    /\ Abs(heap, config) # <<>>
    /\ Abs(heap, config) # Abs(heap, other)

\* the source still holds the object behind the handle at the handle's keylist
Attached(hp) == ref.id # 0 /\ ObjAt(hp, config, ref.keylist) = ref.id

RefMutation(l) == l.op \in Mutators /\ l.h = "ref" /\ l.exc = "none"

VisibleThroughSource(hp) ==
    AbsAt(Abs(hp, config), ref.keylist) = Section(Abs(hp, ref.id))

\* C4 as stated: every mutation through the handle is visible through the
\* source under K, whatever was applied to the source in between.
C4_AlwaysVisible == RefMutation(last) => VisibleThroughSource(heap)

\* C4 amended: subconfig(K) returns the very object the source holds at K,
\* and every mutation through the handle is visible through the source under
\* K as long as the source still holds that object at K (no remove_option,
\* set or merge on the source has removed or replaced a key on the path K).
C4_AliasStep ==
    /\ (last'.op = "subconfig" /\ last'.exc = "none")
           => ref'.id # 0 /\ ObjAt(heap', config', ref'.keylist) = ref'.id
    /\ (RefMutation(last') /\ Attached(heap))
           => /\ Attached(heap')
              /\ VisibleThroughSource(heap')
              /\ last'.op = "set"
                    => ReturnsString(
                           GetString(heap', config,
                                     ref.keylist \o last'.keylist),
                           last'.value)
              /\ last'.op = "remove_option"
                    => ~AbsAt(Abs(heap', config),
                              ref.keylist \o last'.keylist).found

C4_AliasWhileAttached == [][C4_AliasStep]_vars

C4_Witness ==
    /\ RefMutation(last) /\ last.op = "set" /\ Attached(heap)
    /\ ref.keylist # <<>>
    /\ ReturnsString(GetString(heap, config, ref.keylist \o last.keylist),
                     last.value)

\* right-biased recursive union of two tree values
RECURSIVE Union(_, _)
RECURSIVE UnionFrom(_, _, _)
UnionFrom(A, B, i) ==
    IF i > Len(B) THEN A
    ELSE LET e == B[i]
             both == AbsHas(A, e.key) /\ e.isnode
                         /\ A[AbsIndex(A, e.key)].isnode
             entry == IF both
                      THEN [e EXCEPT
                              !.sub = Union(A[AbsIndex(A, e.key)].sub, e.sub)]
                      ELSE e
             A1 == IF AbsHas(A, e.key)
                   THEN [A EXCEPT ![AbsIndex(A, e.key)] = entry]
                   ELSE Append(A, entry)
         IN  UnionFrom(A1, B, i + 1)

Union(A, B) == UnionFrom(A, B, 1)

\* C5: after self.merge(other, K) the section at K is the right-biased
\* recursive union of its previous content and other, and every leaf
\* keylist k of other satisfies self.get(K + k) = other.get(k).
C5_MergeStep ==
    (last'.op = "merge" /\ last'.exc = "none")
        => LET self == Obj(last'.h)
               oth == Obj(last'.with)
               K == last'.keylist
               before == AbsAt(Abs(heap, self), K)
               previous == IF before.found THEN before.sub ELSE <<>>
               leaves == suboptions(heap', oth)
           IN  /\ AbsAt(Abs(heap', self), K)
                     = Section(Union(previous, Abs(heap, oth)))
               /\ \A j \in 1..Len(leaves) :
                     LET mine == GetString(heap', self, K \o leaves[j])
                         theirs == GetString(heap', oth, leaves[j])
                     IN  /\ mine.exc = "none" /\ mine.kind = "str"
                         /\ mine.val = theirs.val

C5_MergeIsRightBiasedUnion == [][C5_MergeStep]_vars

C5_Witness ==
    /\ last.op = "merge" /\ last.exc = "none" /\ last.h = "config"
    /\ last.keylist = <<(<<"s">>)>>
    /\ Len(Abs(heap, other)) >= 1
    /\ LET sec == AbsAt(Abs(heap, config), last.keylist).sub
       IN  /\ \E i \in 1..Len(sec) : ~AbsHas(Abs(heap, other), sec[i].key)
           /\ \E i \in 1..Len(sec) : AbsHas(Abs(heap, other), sec[i].key)

\* every leaf of the tree value t rewritten by str.replace
RECURSIVE ReplaceAll(_, _, _)
ReplaceAll(t, old, new) ==
    [i \in 1..Len(t) |->
        IF t[i].isnode
        THEN [t[i] EXCEPT !.sub = ReplaceAll(t[i].sub, old, new)]
        ELSE [t[i] EXCEPT !.str = replace(t[i].str, old, new)]]

\* the tree value t with ReplaceAll applied to what kl addresses
RECURSIVE ReplaceAt(_, _, _, _)
ReplaceAt(t, kl, old, new) ==
    IF kl = <<>> THEN ReplaceAll(t, old, new)
    ELSE LET i == AbsIndex(t, Head(kl))
         IN  IF t[i].isnode
             THEN [t EXCEPT ![i].sub = ReplaceAt(t[i].sub, Tail(kl), old, new)]
             ELSE [t EXCEPT ![i].str = replace(t[i].str, old, new)]

\* C8: substitution(old, new, K) rewrites exactly the leaf K addresses, or
\* every leaf beneath the section K addresses, and changes nothing else.
C8_SubstitutionStep ==
    (last'.op = "substitution"
        /\ AbsAt(Abs(heap, Obj(last'.h)), last'.keylist).found)
        => /\ last'.exc = "none"
           /\ Abs(heap', Obj(last'.h))
                 = ReplaceAt(Abs(heap, Obj(last'.h)), last'.keylist,
                             last'.old, last'.new)

C8_SubstitutionRewrites == [][C8_SubstitutionStep]_vars

-----------------------------------------------------------------------------
(* Claims about read_file and tofile *)

PassStarted == heap0 # <<>>
Finished == pc \in {"returned", "written", "error"}

Leaves0 == {suboptions(heap0, other)[i] :
               i \in 1..Len(suboptions(heap0, other))}
Value0(kl) == GetString(heap0, other, kl).val

\* the texts between the 1st and 2nd, 3rd and 4th, ... delimiter of a value
Tokens(v) ==
    LET parts == split(v, reference_char)
    IN  [j \in 1..(Len(parts) \div 2) |-> parts[2 * j]]

TokenSet(v) == {Tokens(v)[j] : j \in 1..Len(Tokens(v))}

WellFormed(v) ==
    /\ Len(split(v, reference_char)) % 2 = 1
    /\ <<>> \notin TokenSet(v)

TokenKeylist(tok) == split(tok, ".")

\* the leaves the value of leaf kl refers to
References(kl) ==
    {TokenKeylist(tok) : tok \in TokenSet(Value0(kl)) \ {<<>>}} \cap Leaves0

RECURSIVE Closure(_, _)
Closure(S, n) ==
    IF n = 0 THEN S
    ELSE Closure(S \cup UNION {References(kl) : kl \in S}, n - 1)

HasCycle ==
    \E kl \in Leaves0 : kl \in Closure(References(kl), Cardinality(Leaves0))

TokensWellFormed == \A kl \in Leaves0 : WellFormed(Value0(kl))

TokensNameLeaves ==
    \A kl \in Leaves0 : \A tok \in TokenSet(Value0(kl)) :
        TokenKeylist(tok) \in Leaves0

AtMostTwoTokens == \A kl \in Leaves0 : Len(Tokens(Value0(kl))) <= 2

\* C6 amended: the reference-resolution pass terminates on every tree, and
\* whenever the reference tokens form a cycle it never returns: it ends by
\* raising an exception, which is CrossReferenceError when every reference
\* token is well-formed and names an existing leaf and no value holds more
\* than two tokens.
C6_PassTerminates == (pc = "resolve") ~> (pc \in {"returned", "error"})

C6_CycleNeverReturns ==
    (PassStarted /\ HasCycle)
        => /\ pc \notin {"returned", "written"}
           /\ (pc = "error" /\ TokensWellFormed /\ TokensNameLeaves
                  /\ AtMostTwoTokens)
                  => err = "CrossReferenceError"

RECURSIVE Expand(_, _)
RECURSIVE ExpandParts(_, _, _)
ExpandParts(parts, i, fuel) ==
    IF i > Len(parts) THEN <<>>
    ELSE (IF i % 2 = 1 THEN parts[i]
          ELSE IF fuel = 0 THEN <<>>
          ELSE Expand(TokenKeylist(parts[i]), fuel - 1))
             \o ExpandParts(parts, i + 1, fuel)

Expand(kl, fuel) == ExpandParts(split(Value0(kl), reference_char), 1, fuel)

\* C7: when the tokens are well-formed, name existing leaves and form no
\* cycle, the pass completes without error and leaves every leaf equal to
\* its original text with each token replaced by the fully resolved value of
\* the referenced leaf; no leaf contains a delimiter afterwards.
C7_Resolved ==
    (PassStarted /\ Finished /\ TokensWellFormed /\ TokensNameLeaves
        /\ ~HasCycle)
        => /\ pc # "error"
           /\ suboptions(heap, other) = suboptions(heap0, other)
           /\ \A kl \in Leaves0 :
                 LET now == GetString(heap, other, kl)
                 IN  /\ ReturnsString(now, Expand(kl, Cardinality(Leaves0)))
                     /\ \A i \in 1..Len(now.val) :
                           now.val[i] # reference_char

\* C9: in the flat convention a leaf line is inserted at
\* [currentSection, key], and at the root, at [key], when no section line
\* came before it.
C9_FlatLeafStep ==
    (pc = "read" /\ convention = "flat" /\ lineno' = lineno + 1
        /\ LET line == split(file[lineno], comment_char)[1]
           IN  line # <<>> /\ ~isspace(line) /\ ~is_tree_node(line))
        => LET line == split(file[lineno], comment_char)[1]
               where == IF section = None THEN <<leaf_key(line)>>
                        ELSE <<section, leaf_key(line)>>
           IN  AbsAt(Abs(heap', other), where) = Option(leaf_value(line))

C9_FlatLeafPlacement == [][C9_FlatLeafStep]_vars

ReservedChars == {"#", "%", "=", "[", "]", ".", " "}

LegalKey(k) == k # <<>> /\ \A i \in 1..Len(k) : k[i] \notin ReservedChars

LegalValue(v) ==
    /\ \A i \in 1..Len(v) : v[i] \notin {comment_char, reference_char}
    /\ strip(v) = v

RECURSIVE LegalTree(_)
LegalTree(t) ==
    \A i \in 1..Len(t) :
        /\ LegalKey(t[i].key)
        /\ IF t[i].isnode THEN LegalTree(t[i].sub) ELSE LegalValue(t[i].str)

RECURSIVE NoEmptySection(_)
NoEmptySection(t) ==
    \A i \in 1..Len(t) :
        t[i].isnode => t[i].sub # <<>> /\ NoEmptySection(t[i].sub)

\* file holds the lines config.tofile wrote in the nested convention
WrittenByToFile ==
    /\ pc # "build" /\ convention = "py"
    /\ file = tofile(heap, config, "py", indentation)

RoundTrips ==
    /\ pc # "error"
    /\ pc = "written"
          => file2 = file /\ Abs(heap, other) = Abs(heap, config)

\* C10 as stated: for every tree of legal keys and values, parsing the
\* lines tofile wrote and writing the parsed tree again yields the same
\* lines.
C10_RoundTripEveryTree ==
    (WrittenByToFile /\ LegalTree(Abs(heap, config))) => RoundTrips

\* C10 amended: the same, for every tree of legal keys and values that has
\* no empty section.
C10_RoundTrip ==
    (WrittenByToFile /\ LegalTree(Abs(heap, config))
        /\ NoEmptySection(Abs(heap, config))) => RoundTrips

C10_Witness ==
    /\ WrittenByToFile /\ LegalTree(Abs(heap, config))
    /\ NoEmptySection(Abs(heap, config))
    /\ pc = "written" /\ file2 = file
    /\ Len(file) >= 4
    /\ \E i \in 1..Len(suboptions(heap, config)) :
          Len(suboptions(heap, config)[i]) = 3

-----------------------------------------------------------------------------
(* Claims about suboptions, the conversions and the parser's bookkeeping *)

\* the number of leaves of the tree value t
RECURSIVE LeafCount(_)
RECURSIVE LeafCountFrom(_, _)
LeafCountFrom(t, i) ==
    IF i > Len(t) THEN 0
    ELSE (IF t[i].isnode THEN LeafCount(t[i].sub) ELSE 1)
             + LeafCountFrom(t, i + 1)

LeafCount(t) == LeafCountFrom(t, 1)

\* leaf k1 comes before leaf k2 in the depth-first pre-order of t that
\* follows each section's insertion order
RECURSIVE PreOrderBefore(_, _, _)
PreOrderBefore(t, k1, k2) ==
    /\ k1 # <<>> /\ k2 # <<>>
    /\ AbsHas(t, Head(k1)) /\ AbsHas(t, Head(k2))
    /\ IF Head(k1) = Head(k2)
       THEN PreOrderBefore(t[AbsIndex(t, Head(k1))].sub, Tail(k1), Tail(k2))
       ELSE AbsIndex(t, Head(k1)) < AbsIndex(t, Head(k2))

ListsLeavesInPreOrder(hp, n, L) ==
    /\ \A i \in 1..Len(L) : AddressesLeaf(hp, n, L[i])
    /\ Len(L) = LeafCount(Abs(hp, n))
    /\ \A i, j \in 1..Len(L) :
          i < j => L[i] # L[j] /\ PreOrderBefore(Abs(hp, n), L[i], L[j])

C11_EveryTree ==
    \A n \in {config, other} :
        ListsLeavesInPreOrder(heap, n, suboptions(heap, n))

\* the list read_file obtains from self.suboptions()
C11_ReadFileStep ==
    (pc = "read" /\ pc' = "resolve")
        => ListsLeavesInPreOrder(heap', other, todo')

\* C11: suboptions() returns exactly the keylists of all leaves of the tree,
\* each once, in depth-first pre-order following each section's insertion
\* order; sections are never listed.
C11_SuboptionsListsLeaves == []C11_EveryTree /\ [][C11_ReadFileStep]_vars

C11_Witness ==
    /\ pc = "resolve" /\ heap = heap0 /\ Len(todo) = 3
    /\ Len(todo[1]) = 3 /\ Len(todo[2]) = 2 /\ Len(todo[3]) = 1
    /\ todo = suboptions(heap, other)

-----------------------------------------------------------------------------
(* get with a conversion, on an option holding one of the strings below *)

ConversionInputs ==
    {
      <<"t", "r", "u", "e">>, <<"T", "r", "u", "e">>, <<"T", "R", "U", "E">>,
      <<"t", "R", "u", "e">>, <<"y", "e", "s">>, <<"Y", "e", "s">>,
      <<"Y", "E", "S">>, <<"o", "n">>, <<"O", "n">>,
      <<"O", "N">>, <<"1">>, <<"f", "a", "l", "s", "e">>,
      <<"F", "a", "l", "s", "e">>, <<"F", "A", "L", "S", "E">>, <<"n", "o">>,
      <<"N", "o">>, <<"N", "O">>, <<"o", "f", "f">>,
      <<"O", "f", "f">>, <<"O", "F", "F">>, <<"0">>,
      <<"m", "a", "y", "b", "e">>, <<>>, <<"2">>,
      <<"y">>, <<"t">>, <<"t", "r", "u">>,
      <<"t", "r", "u", "e", "e">>, <<" ", "o", "n">>, <<"o", "n", " ">>,
      <<"1", "0">>, <<"-", "1">>
    }

\* config = TreeConfigParser(); config.set(['a'], v)
InitConversion ==
    /\ \E v \in ConversionInputs :
          heap = set(<< <<>>, <<>> >>, 1, <<(<<"a">>)>>, v, FALSE).heap
    /\ config = 1
    /\ other = 2
    /\ ref = [id |-> 0, keylist |-> <<>>]
    /\ cloned = FALSE
    /\ last = NoCall
    /\ nops = 0
    /\ Idle

NextConversion == \E t \in TypeTags : Get("config", <<(<<"a">>)>>, t)

SpecConversion == InitConversion /\ [][NextConversion]_vars

\* v is the lower-case word w up to the case of its letters
EqualsIgnoringCase(v, w) ==
    /\ Len(v) = Len(w)
    /\ \A i \in 1..Len(w) :
          \/ v[i] = w[i]
          \/ \E k \in 1..Len(ascii_lowercase) :
                 ascii_lowercase[k] = w[i] /\ ascii_uppercase[k] = v[i]

TrueWords == {<<"t", "r", "u", "e">>, <<"y", "e", "s">>, <<"o", "n">>, <<"1">>}
FalseWords == {<<"f", "a", "l", "s", "e">>, <<"n", "o">>, <<"o", "f", "f">>, <<"0">>}

SpellsTrue(v) == \E w \in TrueWords : EqualsIgnoringCase(v, w)
SpellsFalse(v) == \E w \in FalseWords : EqualsIgnoringCase(v, w)

ConvertedToBool == last.op = "get" /\ last.to_type = "bool"

\* the string held by the option the last get converted
Converted == GetString(heap, config, last.keylist).val

\* the 'bool' conversion of the eight words, in any case
C12_WordsConverted ==
    (ConvertedToBool /\ (SpellsTrue(Converted) \/ SpellsFalse(Converted)))
        => /\ last.exc = "none" /\ last.kind = "bool"
           /\ last.ret = SpellsTrue(Converted)

\* C12: the 'bool' conversion maps true/yes/on/1 to True and
\* false/no/off/0 to False, case-insensitively, and raises ValueError for
\* every other string instead of returning a result.
C12_BoolConversion ==
    /\ C12_WordsConverted
    /\ (ConvertedToBool /\ ~SpellsTrue(Converted) /\ ~SpellsFalse(Converted))
          => last.exc = "ValueError"

-----------------------------------------------------------------------------
(* The recursion budget of the reference pass *)

Budget0 == Len(suboptions(heap0, other)) - 1

\* the references of frame i that are already substituted
Consumed(i) ==
    Len(extract_references(GetString(heap, other, stack[i].keylist).val,
                           reference_char))
        - Len(stack[i].reflist)

\* the nested resolution steps made by the frames under frame k, the steps
\* that entered the frames above them included
RECURSIVE NestedStepsBelow(_)
NestedStepsBelow(k) ==
    IF k <= 1 THEN 0
    ELSE NestedStepsBelow(k - 1) + Consumed(k - 1) + 1

\* C13 as stated: the budget is one counter for the whole pass, starting at
\* (number of leaves - 1), decremented on every nested resolution step and
\* never restored: no call sees more than what the steps before it left.
C13_SharedBudget ==
    pc = "resolve"
        => /\ max_rec = Budget0
           /\ \A k \in 1..Len(stack) :
                 stack[k].max_rec <= Budget0 - NestedStepsBelow(k)

C13_BudgetIsDepth ==
    pc = "resolve"
        => /\ max_rec = Budget0
           /\ \A k \in 1..Len(stack) : stack[k].max_rec = max_rec - (k - 1)

\* the keylist the next call of solve_references_keylist is made with
NextCallDue ==
    /\ pc = "resolve"
    /\ \/ stack = <<>> /\ todo # <<>>
       \/ stack # <<>> /\ stack[Len(stack)].reflist # <<>>

NextCalled ==
    IF stack = <<>> THEN Head(todo)
    ELSE split(Head(stack[Len(stack)].reflist), ".")

C13_RaiseStep ==
    pc = "resolve"
        => ((pc' = "error" /\ err' = "CrossReferenceError")
               <=> /\ NextCallDue
                   /\ LET g == GetString(heap, other, NextCalled)
                      IN  /\ g.exc = "none" /\ g.kind = "str"
                          /\ has_reference(g.val, reference_char)
                   /\ Len(stack) = max_rec)

\* C13 amended: the budget is a bound on the nesting depth, passed by
\* value: every leaf of the outer loop starts with (number of leaves - 1),
\* a nested resolution gets its caller's budget minus one, the caller's
\* budget is unchanged when the nested resolution returns, and
\* CrossReferenceError is raised exactly when a value holding a reference
\* is reached with budget 0, at nesting depth (number of leaves - 1).
C13_DepthBudget == []C13_BudgetIsDepth /\ [][C13_RaiseStep]_vars

C13_Witness ==
    /\ pc = "resolve" /\ max_rec = 2 /\ Len(stack) = 2
    /\ Consumed(1) = 1
    /\ stack[2].max_rec = 1
    /\ heap # heap0

-----------------------------------------------------------------------------
(* The indentation of the nested convention *)

\* the line read_line_py is about to parse, its comment removed
Content == split(file[lineno], comment_char)[1]

ReadsContentLine ==
    /\ pc = "read" /\ convention = "py" /\ lineno <= Len(file)
    /\ Content # <<>> /\ ~isspace(Content)

Width == Len(Content) - Len(lstrip(Content))
Depth == Width \div indentation
SectionName == LET t == strip(Content) IN SubSeq(t, 2, Len(t) - 1)
ActivePrefix == SubSeq(keylist, 1, Depth)

BadIndentation == Width % indentation # 0 \/ Depth > Len(keylist)

RaisesIndentationError == pc' = "error" /\ err' = "IndentationError"

SectionOpened ==
    /\ pc' = "read" /\ lineno' = lineno + 1
    /\ keylist' = ActivePrefix \o <<SectionName>>
    /\ heap' = heap

LeafInserted ==
    /\ pc' = "read" /\ lineno' = lineno + 1
    /\ ReturnsString(GetString(heap', other,
                                ActivePrefix \o <<leaf_key(Content)>>),
                     leaf_value(Content))

C14_IndentStep ==
    ReadsContentLine
        => IF BadIndentation THEN RaisesIndentationError
           ELSE IF is_tree_node(Content) THEN SectionOpened
           ELSE LeafInserted

\* C14: in the nested convention, a section or leaf line whose
\* leading-whitespace width is not a multiple of the indentation unit, or
\* whose depth (width / unit) exceeds the length of the active keylist,
\* makes parsing fail with IndentationError; otherwise a leaf is inserted at
\* (first depth elements of the active keylist) + [key] and a section line
\* sets the active keylist to (first depth elements) + [name].
C14_IndentationRule == [][C14_IndentStep]_vars

\* the same on the lines whose key is not empty; a leaf whose keylist runs
\* through an existing leaf is refused by set
C14_KeyedStep ==
    (ReadsContentLine
        /\ (is_tree_node(Content) \/ leaf_key(Content) # <<>>))
        => IF BadIndentation THEN RaisesIndentationError
           ELSE IF is_tree_node(Content) THEN SectionOpened
           ELSE IF \E p \in ProperPrefixes(ActivePrefix
                                              \o <<leaf_key(Content)>>) :
                      AddressesLeaf(heap, other, p)
                THEN pc' = "error" /\ err' = "AttributeError"
           ELSE LeafInserted

C14_KeyedLines == [][C14_KeyedStep]_vars

C14_Witness ==
    /\ pc = "read" /\ lineno = 4 /\ Len(keylist) = 2
    /\ AddressesLeaf(heap, other, keylist \o <<(<<"a">>)>>)

====
